---- MODULE Spec2Model ----
(***************************************************************************)
(* skutil.h2o: the feature selectors of select.py and the H2OPipeline of   *)
(* pipeline.py, as a state machine.                                        *)
(*                                                                         *)
(* A frame is a record [columns, nrows, ds]: its ordered column names, its *)
(* row count and the per-column statistics the external engine computes    *)
(* from its data (ds).  Column subsetting keeps nrows and ds.  Thresholds, *)
(* correlations, variances and ratios are integers in hundredths.          *)
(***************************************************************************)
EXTENDS Integers, Sequences, FiniteSets, TLC

VARIABLES pipe, ctor, call, sel, selCall

vars == <<pipe, ctor, call, sel, selCall>>

(* ------------------------------ bounds -------------------------------- *)

\* the largest number of selector steps in front of the estimator
MaxSteps == 2

\* the row count of the frames handed to the pipeline
NRows == 10

(* ----------------------- python values, sequences ---------------------- *)

\* an attribute that is None or was never assigned
Absent == [has |-> FALSE, v |-> <<>>]

Some(x) == [has |-> TRUE, v |-> x]

\* the name standing for a target_feature of None
NoName == "<None>"

InSeq(x, s) == \E i \in 1..Len(s) : s[i] = x

SeqSet(s) == {s[i] : i \in 1..Len(s)}

Abs(n) == IF n < 0 THEN -n ELSE n

\* [x for x in s if x not in t]
Without(s, t) ==
    LET keep(x) == ~InSeq(x, t)
    IN  SelectSeq(s, keep)

(* ------------------------------ frames --------------------------------- *)

\* every name of the list is a column of X
HasCols(X, names) == \A i \in 1..Len(names) : InSeq(names[i], X.columns)

\* X[names] on a frame that has them
Cols(X, names) == [X EXCEPT !.columns = names]

\* base.check_frame: every modelled frame is an H2OFrame, returned as is
check_frame(X) == X

\* base._retain_features: the columns of X that are not to be dropped
_retain_features(X, drop) == Without(X.columns, drop)

\* base._frame_from_x_y: the candidate frame of a selector
_frame_from_x_y(X, feature_names, target_feature, exclude_features) ==
    LET x     == IF feature_names.has /\ feature_names.v # <<>>
                 THEN feature_names.v ELSE X.columns
        excl  == IF exclude_features.has THEN exclude_features.v ELSE <<>>
        names == Without(Without(x, excl), <<target_feature>>)
    IN  IF HasCols(X, names)
        THEN [err |-> "", frame |-> Cols(X, names)]
        ELSE [err |-> "FrameError", frame |-> X]

(* --------------------------- selector state ---------------------------- *)

\* a selector as constructed: no fitted attribute exists yet
Unfitted == [target_feature         |-> NoName,
             drop_                  |-> Absent,
             sparsity_              |-> Absent,
             mean_abs_correlations_ |-> Absent,
             correlations_          |-> Absent,
             var_                   |-> Absent]

\* what a fit call leaves behind: the error raised ("" when it returned), the
\* selector's state afterwards, the frame returned by fit_transform, and the
\* operations performed on the frame before the call ended: "subset" (column
\* subsetting), "isna", "cor", "var", "freq" (the values of a column)
FitResult(err, st, out, touched) ==
    [err |-> err, st |-> st, out |-> out, touched |-> touched]

\* transform that selects the columns of drop_ instead of the others
TransformKeepsDropped(st, X) ==
    LET dropped(c) == InSeq(c, st.drop_.v)
    IN  IF ~st.drop_.has
        THEN [err |-> "NotFittedError", frame |-> X]
        ELSE [err |-> "", frame |-> Cols(check_frame(X), SelectSeq(X.columns, dropped))]

\* BaseH2OFeatureSelector.transform
transform(st, X) ==
    IF ~st.drop_.has
    THEN [err |-> "NotFittedError", frame |-> X]
    ELSE [err |-> "", frame |-> Cols(check_frame(X), _retain_features(X, st.drop_.v))]

(* ------------------------- select._validate_use ------------------------ *)

RECURSIVE NaSum(_, _)
\* X.isna().sum(): the missing values of all columns of the frame
NaSum(X, i) ==
    IF i > Len(X.columns) THEN 0
    ELSE X.ds.na[X.columns[i]] + NaSum(X, i + 1)

_valid_use == {"complete.obs", "all.obs", "everything"}

\* the use to pass on, or the error; touched: the frame was asked for its NAs
_validate_use(X, use, na_warn) ==
    IF use \notin _valid_use
    THEN [err |-> "ValueError", use |-> use, touched |-> {}]
    ELSE IF use = "complete.obs"
    THEN [err |-> "", use |-> use, touched |-> {}]
    ELSE IF na_warn
    THEN [err |-> "", touched |-> {"isna"},
          use |-> IF NaSum(X, 1) > 0 THEN "complete.obs" ELSE use]
    ELSE [err |-> "", use |-> use, touched |-> {}]

(* --------------------------- H2OFeatureDropper ------------------------- *)

H2OFeatureDropper_fit(cfg, st, X) ==
    LET fn == IF cfg.feature_names.has THEN cfg.feature_names.v ELSE <<>>
    IN  FitResult("", [st EXCEPT !.drop_ = Some(fn)], X, {})

(* ------------------------ H2OSparseFeatureDropper ---------------------- *)

\* ser >= thresh: a column at the threshold is dropped too
IsSparseInclusive(X, col, thresh) == X.ds.na[col] * 100 >= thresh * X.nrows

\* ser > thresh for the column's fraction missing/nrows, thresh in hundredths
IsSparse(X, col, thresh) == X.ds.na[col] * 100 > thresh * X.nrows

H2OSparseFeatureDropper_fit(cfg, st, X) ==
    LET ff     == _frame_from_x_y(check_frame(X), cfg.feature_names,
                                  st.target_feature, cfg.exclude_features)
        frame  == ff.frame
        thresh == cfg.threshold
        sparse(col) == IsSparse(frame, col, thresh)
    IN  IF ff.err # "" THEN FitResult(ff.err, st, X, {"subset"})
        ELSE IF ~(0 <= thresh /\ thresh < 100)
        THEN FitResult("ValueError", st, X, {"subset"})
        ELSE FitResult("",
                 [st EXCEPT
                    !.drop_     = Some(SelectSeq(frame.columns, sparse)),
                    !.sparsity_ = Some([i \in 1..Len(frame.columns) |->
                                        <<frame.ds.na[frame.columns[i]], frame.nrows>>])],
                 X, {"subset", "isna"})

(* ------------------- feature_selection.filter_collinearity ------------- *)

\* frame.cor(...) without .abs(): the signed correlation of two columns
SignedCor(X, a, b) == IF a = b THEN 100 ELSE X.ds.cor[{a, b}]

\* frame.cor(...).abs(): the absolute correlation of two columns
AbsCor(X, a, b) == IF a = b THEN 100 ELSE Abs(X.ds.cor[{a, b}])

RECURSIVE CorSum(_, _, _, _)
\* the sum of C[a, .] over the live columns other than a
CorSum(X, a, live, i) ==
    IF i > Len(live) THEN 0
    ELSE (IF live[i] = a THEN 0 ELSE AbsCor(X, a, live[i])) + CorSum(X, a, live, i + 1)

\* the positions i < j of the live pairs whose correlation exceeds the threshold
OverPairs(X, live, threshold) ==
    {p \in (1..Len(live)) \X (1..Len(live)) :
        p[1] < p[2] /\ AbsCor(X, live[p[1]], live[p[2]]) > threshold}

RECURSIVE filter_collinearity(_, _, _, _)
\* the greedy elimination over the live columns; acc collects the records
filter_collinearity(X, live, threshold, acc) ==
    LET pairs == OverPairs(X, live, threshold)
        C(p)  == AbsCor(X, live[p[1]], live[p[2]])
        first(p, q) == \/ C(p) > C(q)
                       \/ C(p) = C(q) /\ p[1] < q[1]
                       \/ C(p) = C(q) /\ p[1] = q[1] /\ p[2] <= q[2]
    IN  IF pairs = {} THEN acc
        ELSE LET best == CHOOSE p \in pairs : \A q \in pairs : first(p, q)
                 a    == live[best[1]]
                 b    == live[best[2]]
                 macA == CorSum(X, a, live, 1)
                 macB == CorSum(X, b, live, 1)
                 gone == IF macA > macB THEN a ELSE b
                 rec  == [a |-> a, b |-> b, cor |-> C(best), dropped |-> gone,
                          mac |-> <<IF macA > macB THEN macA ELSE macB, Len(live) - 1>>]
             IN  filter_collinearity(X, Without(live, <<gone>>), threshold,
                                     Append(acc, rec))

(* ---------------------- H2OMulticollinearityFilterer ------------------- *)

\* the correlations the filterer hands to filter_collinearity: c = cor().abs()
MCFDrops(frame, threshold) == filter_collinearity(frame, frame.columns, threshold, <<>>)

H2OMulticollinearityFilterer_fit_transform(cfg, st, X) ==
    LET ff    == _frame_from_x_y(check_frame(X), cfg.feature_names,
                                 st.target_feature, cfg.exclude_features)
        frame == ff.frame
        vu    == _validate_use(frame, cfg.use, cfg.na_warn)
        recs  == MCFDrops(frame, cfg.threshold)
        st2   == [st EXCEPT
                    !.drop_ = Some([i \in 1..Len(recs) |-> recs[i].dropped]),
                    !.mean_abs_correlations_ = Some([i \in 1..Len(recs) |-> recs[i].mac]),
                    !.correlations_ = Some(recs)]
    IN  IF ff.err # "" THEN FitResult(ff.err, st, X, {"subset"})
        ELSE IF vu.err # "" THEN FitResult(vu.err, st, X, {"subset"})
        ELSE FitResult("", st2, transform(st2, X).frame,
                       {"subset", "cor"} \cup vu.touched)

(* ---------------------- H2ONearZeroVarianceFilterer -------------------- *)

\* feature_selection.select._near_zero_variance_ratio: the frequency of the
\* most common value over that of the second most common one exceeds the ratio
\* (no second value: dropped)
_near_zero_variance_ratio(X, col, ratio) ==
    LET f == X.ds.freq[col]
    IN  f[2] = 0 \/ f[1] * 100 > ratio * f[2]

H2ONearZeroVarianceFilterer_fit_transform(cfg, st, X) ==
    LET ff    == _frame_from_x_y(check_frame(X), cfg.feature_names,
                                 st.target_feature, cfg.exclude_features)
        frame == ff.frame
        vu    == _validate_use(frame, cfg.use, cfg.na_warn)
        low(col)   == frame.ds.var[col] < cfg.threshold
        dom(col)   == _near_zero_variance_ratio(frame, col, cfg.threshold)
        dropV == SelectSeq(frame.columns, low)
        dropR == SelectSeq(frame.columns, dom)
        stV   == [st EXCEPT !.drop_ = Some(dropV),
                            !.var_  = Some([i \in 1..Len(dropV) |->
                                            <<dropV[i], frame.ds.var[dropV[i]]>>])]
        stR   == [st EXCEPT !.drop_ = Some(dropR),
                            !.var_  = Some([i \in 1..Len(dropR) |->
                                            <<dropR[i], frame.ds.freq[dropR[i]]>>])]
    IN  IF ff.err # "" THEN FitResult(ff.err, st, X, {"subset"})
        ELSE IF vu.err # "" THEN FitResult(vu.err, st, X, {"subset"})
        ELSE IF cfg.strategy \notin {"variance", "ratio"}
        THEN FitResult("ValueError", st, X, {"subset"} \cup vu.touched)
        ELSE IF cfg.strategy = "variance"
        THEN FitResult("", stV, transform(stV, X).frame,
                       {"subset", "var"} \cup vu.touched)
        ELSE IF ~(cfg.threshold > 100)
        THEN FitResult("ValueError", st, X, {"subset"} \cup vu.touched)
        ELSE FitResult("", stR, transform(stR, X).frame,
                       {"subset", "freq"} \cup vu.touched)

(* ------------------------- a step's fit_transform ---------------------- *)

\* fit of the selector kinds that define no fit_transform of their own
fit(cfg, st, X) ==
    IF cfg.kind = "dropper" THEN H2OFeatureDropper_fit(cfg, st, X)
    ELSE H2OSparseFeatureDropper_fit(cfg, st, X)

\* transform.fit_transform(frameT), or fit(frameT).transform(frameT)
fit_transform(cfg, st, X) ==
    IF cfg.kind = "mcf" THEN H2OMulticollinearityFilterer_fit_transform(cfg, st, X)
    ELSE IF cfg.kind = "nzv" THEN H2ONearZeroVarianceFilterer_fit_transform(cfg, st, X)
    ELSE LET r == fit(cfg, st, X)
         IN  IF r.err # "" THEN r
             ELSE [r EXCEPT !.out = transform(r.st, X).frame,
                            !.touched = r.touched \cup {"subset"}]

(* ============================ H2OPipeline ============================== *)

\* a step object: its configuration, its fitted state and, for an estimator,
\* the arguments of the last train call
Step(name, cfg) == [name |-> name, cfg |-> cfg, st |-> Unfitted, trained |-> Absent]

\* isinstance(t, BaseH2OTransformer)
IsTransformer(cfg) == cfg.kind \in {"dropper", "sparse", "mcf", "nzv"}

\* pipeline._val_features
_val_features(x) ==
    IF ~x.has \/ x.v = <<>> THEN "ValueError" ELSE ""

\* __init__ without the check that the step names are unique
InitNoUniqueNames(steps, feature_names, target_feature) ==
    LET n == Len(steps)
    IN  IF _val_features(feature_names) # "" THEN _val_features(feature_names)
        ELSE IF n = 0 THEN "ValueError"
        ELSE IF \E i \in 1..(n - 1) : ~IsTransformer(steps[i].cfg) THEN "TypeError"
        ELSE IF ~steps[n].cfg.has_train THEN "TypeError"
        ELSE ""

\* H2OPipeline.__init__: the error it raises, "" when the pipeline is built
H2OPipeline_init(steps, feature_names, target_feature) ==
    LET n == Len(steps)
    IN  IF _val_features(feature_names) # "" THEN _val_features(feature_names)
        ELSE IF n = 0 THEN "ValueError"
        ELSE IF Cardinality({steps[i].name : i \in 1..n}) # n THEN "ValueError"
        ELSE IF \E i \in 1..(n - 1) : ~IsTransformer(steps[i].cfg) THEN "TypeError"
        ELSE IF ~steps[n].cfg.has_train THEN "TypeError"
        ELSE ""

\* the columns and the row count of a frame
Shape(X) == [columns |-> X.columns, nrows |-> X.nrows]

RECURSIVE _pre_transform(_, _, _, _, _)
\* one turn of the loop of _pre_transform: r is what step i's fit_transform did
PreStep(steps, i, frameT, y, handed, r) ==
    IF r.err # ""
    THEN [err |-> r.err, steps |-> [steps EXCEPT ![i].st = r.st],
          frame |-> frameT, handed |-> handed]
    ELSE _pre_transform([steps EXCEPT ![i].st = r.st], i + 1, r.out, y,
                        Append(handed, r.out.columns))

\* _pre_transform with its loop over steps[:-2]: the last selector is skipped
PreTransformSkipsLast(steps, i, frameT, y, handed) ==
    IF i >= Len(steps) - 1
    THEN [err |-> "", steps |-> steps, frame |-> frameT, handed |-> handed]
    ELSE PreStep(steps, i, frameT, y, handed,
                 fit_transform(steps[i].cfg,
                               [steps[i].st EXCEPT !.target_feature = y], frameT))

\* H2OPipeline._pre_transform from step i on: every selector step gets the
\* target and is fitted on the frame the step before it returned
_pre_transform(steps, i, frameT, y, handed) ==
    IF i >= Len(steps)
    THEN [err |-> "", steps |-> steps, frame |-> frameT, handed |-> handed]
    ELSE PreStep(steps, i, frameT, y, handed,
                 fit_transform(steps[i].cfg,
                               [steps[i].st EXCEPT !.target_feature = y], frameT))

\* _reset that leaves training_cols_ of an earlier fit in place
ResetKeepsTrainingCols(p) == p

\* H2OPipeline._reset
_reset(p) == [p EXCEPT !.training_cols_ = Absent]

\* the check of fit before the estimator is trained: if not training_cols
NothingRetained(training_cols, training_cols_) == training_cols = <<>>

\* what a call of fit or predict did: the error raised ("" when it returned),
\* the frame given, the columns each selector step handed on, and the
\* arguments the estimator's train / predict was called with
Call(op, err, X, handed, train, predict) ==
    [op |-> op, err |-> err, frame |-> Shape(X), handed |-> handed,
     train |-> train, predict |-> predict]

\* the arguments of steps[-1][1].train(training_frame=Xt, x=..., y=...)
TrainArgs(Xt, x, y) == [x |-> x, y |-> y, columns |-> Xt.columns, nrows |-> Xt.nrows]

\* the end of fit: training_cols_ is set, checked, and the estimator trained
FitTrain(p, X, Xt, handed, training_cols_) ==
    IF NothingRetained(Xt.columns, training_cols_)
    THEN [pipe |-> [p EXCEPT !.training_cols_ = Some(training_cols_)],
          call |-> Call("fit", "ValueError", X, handed, Absent, Absent)]
    ELSE [pipe |-> [p EXCEPT
                      !.training_cols_ = Some(training_cols_),
                      !.steps[Len(p.steps)].trained =
                          Some(TrainArgs(Xt, training_cols_, p.target_feature)),
                      !.fitted = Some(Shape(X))],
          call |-> Call("fit", "", X, handed,
                        Some(TrainArgs(Xt, training_cols_, p.target_feature)), Absent)]

\* fit that takes every column of Xt, the target too, as training_cols_
FitStepsKeepTarget(p, X, pt) ==
    IF pt.err # ""
    THEN [pipe |-> [p EXCEPT !.steps = pt.steps],
          call |-> Call("fit", pt.err, X, pt.handed, Absent, Absent)]
    ELSE FitTrain([p EXCEPT !.steps = pt.steps], X, pt.frame, pt.handed,
                  pt.frame.columns)

\* fit after _pre_transform returned or raised (pt)
FitSteps(p, X, pt) ==
    IF pt.err # ""
    THEN [pipe |-> [p EXCEPT !.steps = pt.steps],
          call |-> Call("fit", pt.err, X, pt.handed, Absent, Absent)]
    ELSE FitTrain([p EXCEPT !.steps = pt.steps], X, pt.frame, pt.handed,
                  Without(pt.frame.columns, <<p.target_feature>>))

\* the elements of feature_names that are not strings: the integers 0 and 5
NotStrings == {"#0", "#5"}

\* isinstance(n, str)
IsStr(n) == n \notin NotStrings

\* bool(n): 0 and the empty string are false
Truthy(n) == n \notin {"#0", ""}

\* n can be iterated and all its items are strings: a string can, its items
\* being its characters; an integer cannot be iterated
ItemsAreStrings(n) == IsStr(n)

\* the check of fit on the element n of feature_names raises a TypeError:
\* n and not all([isinstance(i, str) for i in n])
NameRejected(n) == Truthy(n) /\ ~ItemsAreStrings(n)

\* fit after _reset: the checks of the target and of feature_names, the
\* restriction of the frame to feature_names and the target, and the steps
FitChecked(p, X, xy) ==
    IF p.target_feature = NoName
    THEN [pipe |-> p, call |-> Call("fit", "TypeError", X, <<>>, Absent, Absent)]
    ELSE IF \E i \in 1..Len(p.feature_names.v) : NameRejected(p.feature_names.v[i])
    THEN [pipe |-> p, call |-> Call("fit", "TypeError", X, <<>>, Absent, Absent)]
    ELSE IF ~HasCols(X, xy)
    THEN [pipe |-> p, call |-> Call("fit", "FrameError", X, <<>>, Absent, Absent)]
    ELSE FitSteps(p, X, _pre_transform(p.steps, 1, Cols(X, xy), p.target_feature, <<>>))

\* H2OPipeline.fit: the pipeline afterwards and the record of the call
H2OPipeline_fit(p, X) ==
    FitChecked([_reset(p) EXCEPT !.fit_called = TRUE], X,
               Append(p.feature_names.v, p.target_feature))

RECURSIVE Transforms(_, _, _)
\* the loop of predict: every selector step's transform in turn
Transforms(steps, i, Xt) ==
    IF i >= Len(steps) THEN [err |-> "", frame |-> Xt]
    ELSE LET r == transform(steps[i].st, Xt)
         IN  IF r.err # "" THEN r ELSE Transforms(steps, i + 1, r.frame)

\* H2OPipeline.predict: the record of the call
H2OPipeline_predict(p, X) ==
    LET n  == Len(p.steps)
        t  == Transforms(p.steps, 1, X)
    IN  IF ~p.steps[n].cfg.has_predict
        THEN Call("predict", "AttributeError", X, <<>>, Absent, Absent)
        ELSE IF t.err # ""
        THEN Call("predict", t.err, X, <<>>, Absent, Absent)
        ELSE Call("predict",
                  IF p.steps[n].trained.has THEN "" ELSE "EstimatorError",
                  X, <<>>, Absent, Some(Shape(t.frame)))

(* ============================== inputs ================================= *)

\* the target column and the feature columns of the modelled frames
Target == "y"

AllCols == {"a", "b", "c", "y"}

\* the defaults of the selectors' constructors, in hundredths
DefaultSparseThreshold == 50

DefaultMCFThreshold == 85

SelCfg(kind, fn, excl, thr, na_warn, use, strategy) ==
    [kind |-> kind, feature_names |-> fn, exclude_features |-> excl,
     threshold |-> thr, na_warn |-> na_warn, na_rm |-> FALSE, use |-> use,
     strategy |-> strategy, has_train |-> FALSE, has_predict |-> FALSE]

EstCfg(has_train, has_predict) ==
    [kind |-> "estimator", feature_names |-> Absent, exclude_features |-> Absent,
     threshold |-> 0, na_warn |-> FALSE, na_rm |-> FALSE, use |-> "",
     strategy |-> "", has_train |-> has_train, has_predict |-> has_predict]

\* a dataset: what the engine computes from the data of a frame's columns
Dataset(na, cor, var, freq) == [na |-> na, cor |-> cor, var |-> var, freq |-> freq]

ColPairs == {{c, d} : c, d \in AllCols} \ {{c} : c \in AllCols}

UniformCor(v) == [p \in ColPairs |-> v]

Frame(columns, nrows, ds) == [columns |-> columns, nrows |-> nrows, ds |-> ds]

\* a dataset without missing values, with weak correlations and spread values
PlainDs ==
    Dataset([c \in AllCols |-> 0], UniformCor(20), [c \in AllCols |-> 100],
            [c \in AllCols |-> <<5, 5>>])

(* ----------------------- inputs of the pipeline ------------------------ *)

\* the selector steps offered to the pipeline's constructor
PipeSelectors ==
    {SelCfg("dropper", Some(fn), Absent, 0, TRUE, "complete.obs", "variance") :
        fn \in {<<"a">>, <<Target>>}}
    \cup {SelCfg("sparse", Absent, Absent, DefaultSparseThreshold, TRUE,
                 "complete.obs", "variance"),
          SelCfg("mcf", Absent, Absent, DefaultMCFThreshold, TRUE,
                 "complete.obs", "variance"),
          SelCfg("nzv", Absent, Absent, 1, TRUE, "complete.obs", "variance")}

Obj(cfg, trained) == [cfg |-> cfg, st |-> Unfitted, trained |-> trained]

\* an estimator trained by its owner before the pipeline got it
Pretrained ==
    Some([x |-> <<"a", "b">>, y |-> Target, columns |-> <<"a", "b", Target>>,
          nrows |-> NRows])

\* the objects offered as steps: selectors, estimators untrained and trained,
\* and an object without a train operation
PipeObjects ==
    {Obj(c, Absent) : c \in PipeSelectors}
    \cup {Obj(EstCfg(TRUE, TRUE), Absent), Obj(EstCfg(TRUE, TRUE), Pretrained),
          Obj(EstCfg(FALSE, TRUE), Absent)}

PosNames == <<"s1", "s2", "s3", "s4", "s5">>

\* the names given to n steps: each step's own name, or the first step's again
StepNames(n) ==
    {nm \in [1..n -> {PosNames[i] : i \in 1..n} \cup {"model"}] :
        \A i \in 1..n : nm[i] \in {IF i = n THEN "model" ELSE PosNames[i], "s1"}}

\* the steps list made of the objects objs under the names nm
Steps(objs, nm) ==
    [i \in 1..Len(objs) |-> [name |-> nm[i], cfg |-> objs[i].cfg, st |-> objs[i].st,
                             trained |-> objs[i].trained]]

\* feature_names: None, lists of column names, and lists with an integer
FeatureNameArgs == {Absent, Some(<<"a", "b">>), Some(<<"a">>),
                    Some(<<"a", "#0">>), Some(<<"a", "#5">>)}

TargetArgs == {Target, NoName}

\* the datasets of the frames given to the pipeline: column a sparse (6 of
\* the rows missing) or not, a and b strongly correlated or not, b constant or
\* not; each of these alone, none of them, and all together
PipeTraits == {{}, {"sparse"}, {"collinear"}, {"constant"},
               {"sparse", "collinear", "constant"}}

PipeDataset(traits) ==
    Dataset([c \in AllCols |-> IF c = "a" /\ "sparse" \in traits THEN 6
                               ELSE IF c = "b" THEN 5 ELSE 0],
            [p \in ColPairs |-> IF p = {"a", "b"} /\ "collinear" \in traits
                                THEN -95 ELSE 20],
            [c \in AllCols |-> IF c = "b" /\ "constant" \in traits THEN 0 ELSE 100],
            [c \in AllCols |-> <<5, 5>>])

PipeDatasets == {PipeDataset(t) : t \in PipeTraits}

PipeLayouts == {<<"a", "b", Target>>, <<"a", "b", Target, "c">>, <<"a", Target>>}

PipeFrames == {Frame(l, NRows, ds) : l \in PipeLayouts, ds \in PipeDatasets}

(* ============================ the pipeline ============================= *)

\* fit_called and fitted record the history: fit was called at all, and the
\* shape of the frame of the last fit that returned
NoPipe == [made |-> FALSE, steps |-> <<>>, feature_names |-> Absent,
           target_feature |-> NoName, training_cols_ |-> Absent,
           fit_called |-> FALSE, fitted |-> Absent]

NoCtor == [called |-> FALSE, steps |-> <<>>, after |-> <<>>,
           feature_names |-> Absent, err |-> ""]

\* a frame without columns, rows or data
NoFrame == Frame(<<>>, 0, Dataset(<<>>, <<>>, <<>>, <<>>))

NoCall == Call("none", "", NoFrame, <<>>, Absent, Absent)

\* a selector used on its own, and the data of the frames it is given
NoSel == [made |-> FALSE, cfg |-> EstCfg(FALSE, FALSE), st |-> Unfitted,
          data |-> NoFrame.ds]

\* what a call on the selector did: the error raised ("" when it returned),
\* the frame given and the frame returned, the operations performed on the
\* frame before the call ended, and the selector's state before the call
SelCall(op, err, in, out, touched, before) ==
    [op |-> op, err |-> err, in |-> in, out |-> out, touched |-> touched,
     before |-> before]

NoSelCall == SelCall("none", "", NoFrame, NoFrame, {}, Unfitted)

\* H2OPipeline(steps, feature_names, target_feature)
Construct ==
    /\ ~ctor.called
    /\ \E n \in 1..(MaxSteps + 1) :
       \E objs \in [1..n -> PipeObjects], nm \in StepNames(n),
          fn \in FeatureNameArgs, tf \in TargetArgs :
         LET steps == Steps(objs, nm)
             err   == H2OPipeline_init(steps, fn, tf)
         IN  /\ ctor' = [called |-> TRUE, steps |-> steps, after |-> steps,
                         feature_names |-> fn, err |-> err]
             /\ pipe' = IF err = ""
                        THEN [made |-> TRUE, steps |-> steps, feature_names |-> fn,
                              target_feature |-> tf, training_cols_ |-> Absent,
                              fit_called |-> FALSE, fitted |-> Absent]
                        ELSE pipe
    /\ UNCHANGED <<call, sel, selCall>>

\* pipeline.fit(frame)
Fit ==
    /\ pipe.made
    /\ \E X \in PipeFrames :
       \E r \in {H2OPipeline_fit(pipe, X)} :
         pipe' = r.pipe /\ call' = r.call
    /\ UNCHANGED <<ctor, sel, selCall>>

\* pipeline.predict(frame), on a frame of any layout
Predict ==
    /\ pipe.made
    /\ \E l \in PipeLayouts :
         call' = H2OPipeline_predict(pipe, Frame(l, NRows, PlainDs))
    /\ UNCHANGED <<pipe, ctor, sel, selCall>>

Init ==
    /\ pipe = NoPipe
    /\ ctor = NoCtor
    /\ call = NoCall
    /\ sel = NoSel
    /\ selCall = NoSelCall

Next == Construct \/ Fit \/ Predict

Spec == Init /\ [][Next]_vars

(* ======================= a selector on its own ========================= *)

\* the use and na_warn arguments tried
UseArgs == {<<"complete.obs", TRUE>>, <<"everything", TRUE>>,
            <<"everything", FALSE>>, <<"bogus", TRUE>>}

\* the selectors constructed on their own
SelCatalog ==
    {SelCfg("dropper", fn, Absent, 0, TRUE, "complete.obs", "variance") :
        fn \in {Absent, Some(<<"a">>), Some(<<"a", Target>>)}}
    \cup {SelCfg("sparse", fn, excl, thr, TRUE, "complete.obs", "variance") :
            fn \in {Absent, Some(<<"b", "a">>)}, excl \in {Absent, Some(<<"c">>)},
            thr \in {-10, 0, DefaultSparseThreshold, 90, 100}}
    \cup {SelCfg("mcf", fn, excl, thr, u[2], u[1], "variance") :
            fn \in {Absent, Some(<<"a", "b", "c">>)}, excl \in {Absent, Some(<<"c">>)},
            thr \in {50, DefaultMCFThreshold}, u \in UseArgs}
    \cup {SelCfg("nzv", Absent, Absent, thr, u[2], u[1], strategy) :
            thr \in {1, 100, 200}, u \in UseArgs,
            strategy \in {"variance", "ratio", "bogus"}}

CorValues == {-95, 20, 60, 90}

\* the data the frames of a selector of the kind are made of
SelData(kind) ==
    IF kind = "sparse"
    THEN {Dataset([c \in AllCols |-> IF c = "a" THEN naA ELSE IF c = "b" THEN naB ELSE 0],
                  PlainDs.cor, PlainDs.var, PlainDs.freq) :
            naA \in 0..NRows, naB \in 0..NRows}
    ELSE IF kind = "mcf"
    THEN {Dataset([c \in AllCols |-> IF c = "a" THEN 1 ELSE 0],
                  [p \in ColPairs |-> IF p = {"a", "b"} THEN ab
                                      ELSE IF p = {"a", "c"} THEN ac
                                      ELSE IF p = {"b", "c"} THEN bc ELSE wy],
                  PlainDs.var, PlainDs.freq) :
            ab \in CorValues, ac \in CorValues, bc \in CorValues, wy \in {20, 90}}
    ELSE IF kind = "nzv"
    THEN {Dataset([c \in AllCols |-> IF c = "a" THEN 1 ELSE 0], PlainDs.cor,
                  [c \in AllCols |-> IF c = "a" THEN varA
                                     ELSE IF c = "b" THEN varB ELSE 100],
                  [c \in AllCols |-> IF c = "a" THEN fA ELSE <<5, 5>>]) :
            varA \in {0, 100}, varB \in {0, 100},
            fA \in {<<9, 1>>, <<5, 5>>, <<10, 0>>}}
    ELSE {PlainDs}

SelLayouts == {<<"a", "b", "c", Target>>, <<"c", "a", Target>>}

\* Selector(feature_names=..., target_feature=..., ...), and the data at hand
SelNew ==
    /\ ~sel.made
    /\ \E cfg \in SelCatalog, tf \in TargetArgs :
       \E ds \in SelData(cfg.kind) :
         sel' = [made |-> TRUE, cfg |-> cfg,
                 st |-> [Unfitted EXCEPT !.target_feature = tf], data |-> ds]
    /\ UNCHANGED <<pipe, ctor, call, selCall>>

\* selector.fit_transform(X); selector.fit(X) leaves the same state
SelFit ==
    /\ sel.made
    /\ \E l \in SelLayouts :
       \E r \in {fit_transform(sel.cfg, sel.st, Frame(l, NRows, sel.data))} :
         /\ sel' = [sel EXCEPT !.st = r.st]
         /\ selCall' = SelCall("fit", r.err, Frame(l, NRows, sel.data), r.out,
                               r.touched, sel.st)
    /\ UNCHANGED <<pipe, ctor, call>>

\* selector.transform(X)
SelTransform ==
    /\ sel.made
    /\ \E l \in SelLayouts :
       \E r \in {transform(sel.st, Frame(l, NRows, sel.data))} :
         selCall' = SelCall("transform", r.err, Frame(l, NRows, sel.data), r.frame,
                            IF r.err = "" THEN {"subset"} ELSE {}, sel.st)
    /\ UNCHANGED <<pipe, ctor, call, sel>>

NextSel == SelNew \/ SelFit \/ SelTransform

SpecSel == Init /\ [][NextSel]_vars

(* ======================= claims on the pipeline ======================== *)

\* the columns handed to the estimator by the last selector step of the fit
\* call recorded in call (the restricted input frame when there is none)
LastHanded ==
    IF call.handed = <<>>
    THEN Append(pipe.feature_names.v, pipe.target_feature)
    ELSE call.handed[Len(call.handed)]

\* no selector step of the pipeline has the name in its drop_
Undropped(name) ==
    \A i \in 1..(Len(pipe.steps) - 1) :
        pipe.steps[i].st.drop_.has /\ ~InSeq(name, pipe.steps[i].st.drop_.v)

FitReturned == call.op = "fit" /\ call.err = ""

\* C1: after a fit that returned, training_cols_ is, in order, the columns the
\* last selector step returned without the target, which are the names of
\* feature_names no selector step has in its drop_, and it is the x of train
C1_TrainingCols ==
    FitReturned =>
        /\ pipe.training_cols_.has
        /\ pipe.training_cols_.v = Without(LastHanded, <<pipe.target_feature>>)
        /\ pipe.training_cols_.v = SelectSeq(pipe.feature_names.v, Undropped)
        /\ call.train.has
        /\ call.train.v.x = pipe.training_cols_.v

\* C1's scenario: [FeatureDropper(['a']), estimator] on ['a','b'] gives ['b']
C1_Witness ==
    /\ FitReturned
    /\ Len(pipe.steps) = 2
    /\ pipe.steps[1].cfg.kind = "dropper"
    /\ pipe.steps[1].st.drop_ = Some(<<"a">>)
    /\ pipe.feature_names.v = <<"a", "b">>
    /\ pipe.training_cols_ = Some(<<"b">>)

\* every selector step of the fit call recorded in call has run
AllStepsRan == call.op = "fit" /\ Len(call.handed) = Len(pipe.steps) - 1

\* C2: when no column but the target is left after the selector steps, fit
\* fails and the estimator's train is not called
C2_EmptyIsFatal ==
    (AllStepsRan /\ Without(LastHanded, <<pipe.target_feature>>) = <<>>) =>
        (call.err # "" /\ ~call.train.has)

SharedName(steps) ==
    \E i, j \in 1..Len(steps) : i < j /\ steps[i].name = steps[j].name

NonSelectorBeforeLast(steps) ==
    \E i \in 1..(Len(steps) - 1) :
        steps[i].cfg.kind \notin {"dropper", "sparse", "mcf", "nzv"}

LastCannotTrain(steps) == ~steps[Len(steps)].cfg.has_train

IllFormed(steps) ==
    SharedName(steps) \/ NonSelectorBeforeLast(steps) \/ LastCannotTrain(steps)

\* C3: a constructor call with two steps of one name, a non-selector before
\* the last step or a last step without train raises a ValueError or
\* TypeError; no pipeline exists, no frame was used and no step has changed
C3_ConstructionRejects ==
    (ctor.called /\ IllFormed(ctor.steps)) =>
        /\ ctor.err \in {"ValueError", "TypeError"}
        /\ ~pipe.made
        /\ call = NoCall
        /\ ctor.after = ctor.steps
        /\ \A i \in 1..Len(ctor.after) : ~ctor.after[i].st.drop_.has

\* a constructor call rejected only for the shared step name
C3_Witness ==
    /\ ctor.called
    /\ ctor.feature_names = Some(<<"a", "b">>)
    /\ Len(ctor.steps) = 3
    /\ SharedName(ctor.steps)
    /\ ~NonSelectorBeforeLast(ctor.steps)
    /\ ~LastCannotTrain(ctor.steps)
    /\ ctor.err = "ValueError"

\* predict was called on the frame of the last fit that returned
PredictOnFitFrame ==
    call.op = "predict" /\ pipe.fitted.has /\ call.frame = pipe.fitted.v

\* C4: predict on the frame of a fit that returned raises no not-fitted error
\* and hands the estimator a frame of as many rows as the input
C4_PredictAfterFit ==
    PredictOnFitFrame =>
        /\ call.err # "NotFittedError"
        /\ call.predict.has
        /\ call.predict.v.nrows = call.frame.nrows

C4_Witness ==
    /\ PredictOnFitFrame
    /\ Len(pipe.steps) = 3
    /\ call.err = ""
    /\ Len(call.predict.v.columns) < Len(call.frame.columns)

\* C5: predict on a pipeline whose fit was never called raises a not-fitted
\* error
C5_PredictBeforeFit ==
    (call.op = "predict" /\ ~pipe.fit_called) => call.err = "NotFittedError"

\* C7: every frame a selector step hands on during fit, and the frame given to
\* train, has the target column
C7_TargetCarried ==
    call.op = "fit" =>
        /\ \A i \in 1..Len(call.handed) : InSeq(pipe.target_feature, call.handed[i])
        /\ call.train.has => InSeq(pipe.target_feature, call.train.v.columns)

\* C8: on a fitted pipeline and a frame that has feature_names and the target,
\* the columns predict hands to the estimator are, besides the target,
\* training_cols_
C8_PredictOnTrainingCols ==
    (/\ call.op = "predict"
     /\ pipe.fitted.has
     /\ pipe.training_cols_.has
     /\ call.predict.has
     /\ SeqSet(pipe.feature_names.v) \cup {pipe.target_feature}
            \subseteq SeqSet(call.frame.columns)) =>
        Without(call.predict.v.columns, <<pipe.target_feature>>) = pipe.training_cols_.v

(* ======================== claims on a selector ========================= *)

\* the candidate columns of the selector on the frame X, from its arguments
Candidates(X) ==
    LET named == IF sel.cfg.feature_names.has /\ sel.cfg.feature_names.v # <<>>
                 THEN sel.cfg.feature_names.v ELSE X.columns
        out(c) == /\ c # sel.st.target_feature
                  /\ ~(sel.cfg.exclude_features.has /\ InSeq(c, sel.cfg.exclude_features.v))
    IN  SelectSeq(named, out)

Transformed == selCall.op = "transform" /\ selCall.err = ""

\* C6: transform of a fitted selector returns the columns of the frame that
\* are not in drop_, in their order and with all rows; it leaves the selector
\* as it was, so that a second call returns the same, and transforming its own
\* output changes nothing
C6_TransformDropsOnly ==
    Transformed =>
        LET kept(c) == ~InSeq(c, sel.st.drop_.v)
        IN  /\ selCall.out.columns = SelectSeq(selCall.in.columns, kept)
            /\ selCall.out.nrows = selCall.in.nrows
            /\ sel.st = selCall.before
            /\ transform(sel.st, selCall.in) = [err |-> "", frame |-> selCall.out]
            /\ transform(sel.st, selCall.out) = [err |-> "", frame |-> selCall.out]

C6_Witness ==
    /\ Transformed
    /\ sel.st.drop_.v # <<>>
    /\ Len(selCall.out.columns) < Len(selCall.in.columns)
    /\ selCall.out.columns # <<>>

FittedKind(kind) == selCall.op = "fit" /\ selCall.err = "" /\ sel.cfg.kind = kind

\* the candidate columns the filterer's fit has not dropped
Survivors == Without(Candidates(selCall.in), sel.st.drop_.v)

\* a filterer of the same threshold for the transformed frame: the same
\* arguments, with the surviving columns as feature_names if any was dropped
SecondFilterer ==
    IF sel.st.drop_.v = <<>> THEN sel.cfg
    ELSE [sel.cfg EXCEPT !.feature_names = Some(Survivors)]

\* C9: after fit_transform of the multicollinearity filterer no two surviving
\* candidate columns are correlated above the threshold, and fitting a
\* filterer of the same threshold on the returned frame drops nothing
C9_FilterIdempotent ==
    FittedKind("mcf") =>
        /\ \A c, d \in SeqSet(Survivors) :
               c # d => Abs(sel.data.cor[{c, d}]) <= sel.cfg.threshold
        /\ LET again == H2OMulticollinearityFilterer_fit_transform(
                            SecondFilterer,
                            [Unfitted EXCEPT !.target_feature = sel.st.target_feature],
                            selCall.out)
           IN  /\ again.err = ""
               /\ again.st.drop_ = Some(<<>>)
               /\ again.st.correlations_ = Some(<<>>)
               /\ again.out = selCall.out

\* a fit of the filterer that dropped two columns, one after the other
C9_Witness ==
    /\ FittedKind("mcf")
    /\ Len(sel.st.drop_.v) = 2
    /\ Len(Survivors) = 2

\* C10: with a threshold t in [0, 1), fit of the sparse feature dropper sets
\* drop_ to the candidate columns whose missing fraction is greater than t (a
\* fraction equal to t stays), and sparsity_ to the fractions of all candidate
\* columns in the order of the candidate frame
C10_SparseStrictlyAbove ==
    FittedKind("sparse") =>
        LET cand == Candidates(selCall.in)
            t    == sel.cfg.threshold
            above(c) == sel.data.na[c] * 100 > t * selCall.in.nrows
        IN  /\ 0 <= t /\ t < 100
            /\ sel.st.drop_ = Some(SelectSeq(cand, above))
            /\ sel.st.sparsity_ =
                   Some([i \in 1..Len(cand) |-> <<sel.data.na[cand[i]], selCall.in.nrows>>])

\* C10's scenario: at threshold 0.5, 6 of 10 missing is dropped, 5 of 10 stays
C10_Witness ==
    /\ FittedKind("sparse")
    /\ sel.cfg.threshold = 50
    /\ selCall.in.nrows = 10
    /\ sel.data.na["a"] = 6
    /\ sel.data.na["b"] = 5
    /\ sel.st.drop_ = Some(<<"a">>)
    /\ Len(sel.st.sparsity_.v) = 3

\* C12: a pipeline cannot be built with feature_names None or empty, and fit
\* of a pipeline whose target_feature is not a string or whose feature_names
\* has an element that is not a string raises a TypeError or ValueError of its
\* own, before the frame is subscripted: a "FrameError" is raised by the frame
\* when it is.  No selector step is fitted and the estimator is not trained
C12_FitValidatesFirst ==
    /\ (ctor.called /\ _val_features(ctor.feature_names) # "") =>
            (ctor.err = "ValueError" /\ ~pipe.made)
    /\ (/\ call.op = "fit"
        /\ \/ pipe.target_feature = NoName
           \/ \E i \in 1..Len(pipe.feature_names.v) : ~IsStr(pipe.feature_names.v[i])) =>
            /\ call.err \in {"TypeError", "ValueError"}
            /\ call.handed = <<>>
            /\ ~call.train.has
            /\ \A i \in 1..Len(pipe.steps) :
                   ~pipe.steps[i].st.drop_.has /\ ~pipe.steps[i].trained.has

\* C13: after a call of fit, the first or a later one, training_cols_ is the
\* list computed from the columns the selector steps of this call handed on,
\* when the call got as far as computing it (it returned, or raised the error
\* of an empty frame), and is absent when the call failed before that: the
\* value of an earlier call is gone
C13_TrainingColsNeverStale ==
    call.op = "fit" =>
        IF AllStepsRan /\ call.err \in {"", "ValueError"}
        THEN pipe.training_cols_ = Some(Without(LastHanded, <<pipe.target_feature>>))
        ELSE pipe.training_cols_ = Absent

\* a fit that failed on its frame after an earlier fit of the pipeline, with
\* selector steps, had returned
C13_Witness ==
    /\ call.op = "fit"
    /\ call.err = "FrameError"
    /\ pipe.fitted.has
    /\ Len(pipe.steps) > 1
    /\ pipe.steps[1].st.drop_.has
    /\ pipe.training_cols_ = Absent

\* the selector's arguments are outside what its fit accepts
ConfigInvalid(cfg) ==
    \/ cfg.kind = "sparse" /\ ~(0 <= cfg.threshold /\ cfg.threshold < 100)
    \/ cfg.kind = "mcf" /\ cfg.use \notin _valid_use
    \/ cfg.kind = "nzv" /\ \/ cfg.use \notin _valid_use
                           \/ cfg.strategy \notin {"variance", "ratio"}
                           \/ cfg.strategy = "ratio" /\ cfg.threshold <= 100

\* C11: when a selector's fit raises the error of an invalid argument (the
\* threshold of the sparse dropper, the use of the two filterers, the strategy
\* or the ratio threshold of the near-zero-variance filterer), no operation on
\* the frame has been performed before
C11_ConfigErrorsEager ==
    (selCall.op = "fit" /\ ConfigInvalid(sel.cfg) /\ selCall.err = "ValueError") =>
        selCall.touched = {}

====
